---- MODULE Spec2Model ----
(***************************************************************************)
(* Model of backend/app/main.py: the url_to_text extraction chain          *)
(* (trafilatura -> newspaper -> readability -> playwright, then cleaning)  *)
(* and the condense_text handler.  Texts are sequences of one-character    *)
(* strings, so that strip(), split('\n') and re.sub are computed as the    *)
(* code computes them.                                                     *)
(***************************************************************************)
EXTENDS Integers, Sequences, FiniteSets, TLC

VARIABLES
    pc,          \* position of the url_to_text handler
    title,       \* local `title`
    text,        \* local `text`
    content_text,\* local `content_text` of the browser provider
    selector,    \* index of the next content selector to query
    browser,     \* the headless browser: "none", "open", "closed"
    playwright,  \* the async_playwright() context: "none", "active", "exited"
    status,      \* "running", "ok" (a UrlToTextResponse) or "error" (HTTPException 500)
    detail,      \* the HTTPException detail message
    invoked,     \* the providers invoked so far, in order
    last,        \* the outcome of the provider that ran last
    accepted,    \* the providers whose body passed the gate and became `text`
    page_body,   \* the inner text of <body> of the rendered page when the last
                 \* fallback is reached; <<>>: no <body>, or not yet known
    consulted,   \* which candidates of the rendered page were read so far
    cpc,         \* position of the condense_text handler
    creq,        \* the TextCondensationRequest
    api_key,     \* os.environ.get("OPENAI_API_KEY"): TRUE when set
    reply,       \* response.choices[0].message.content
    cres,        \* the TextCondensationResponse
    cstatus,     \* "running", "ok" or "error"
    cdetail      \* the HTTPException detail message of condense_text

uvars == <<pc, title, text, content_text, selector, browser, playwright,
           status, detail, invoked, last, accepted, page_body, consulted>>
pvars == <<page_body, consulted>>
cvars == <<cpc, creq, api_key, reply, cres, cstatus, cdetail>>
vars == <<uvars, cvars>>

-----------------------------------------------------------------------------
(* Bounds of the model *)

\* bodies are drawn with trimmed lengths MinLength - Pad .. MinLength + Pad
Pad == 1
\* at most this many <p> elements on the rendered page
MaxParagraphs == 2
\* condense_text: request texts and model replies of at most this many characters
MaxText == 2
MaxReply == 2

(* Program constants *)

\* the quality gate: len(x.strip()) > 100, len(text.strip()) < 100
MinLength == 100
\* a <p> is kept when len(p_text.strip()) > 20
MinParagraph == 20
\* len(content_selectors)
NumSelectors == 11

-----------------------------------------------------------------------------
(* Characters and Python string operations *)

Whitespace == {" ", "\n", "\t", "\r"}
Digit == {"0", "1", "2", "3", "4", "5", "6", "7", "8", "9"}
UpperCase == <<"A", "B", "C", "D", "E", "F", "G", "H", "I", "J", "K", "L", "M",
               "N", "O", "P", "Q", "R", "S", "T", "U", "V", "W", "X", "Y", "Z">>
LowerCase == <<"a", "b", "c", "d", "e", "f", "g", "h", "i", "j", "k", "l", "m",
               "n", "o", "p", "q", "r", "s", "t", "u", "v", "w", "x", "y", "z">>
Letter == {UpperCase[i] : i \in 1..26} \cup {LowerCase[i] : i \in 1..26}

\* \d and \W of Python's re on str
IsDigit(c) == c \in Digit
IsWord(c) == c \in Letter \cup Digit \cup {"_"}

\* case folding of (?i)
UpperSet == {UpperCase[i] : i \in 1..26}
LowerOf == [c \in UpperSet |-> LowerCase[CHOOSE i \in 1..26 : UpperCase[i] = c]]
Lower(c) == IF c \in UpperSet THEN LowerOf[c] ELSE c

Rep(c, n) == [i \in 1..n |-> c]

RECURSIVE LStrip(_)
LStrip(s) ==
    IF s = <<>> THEN s
    ELSE IF Head(s) \in Whitespace THEN LStrip(Tail(s)) ELSE s

RECURSIVE RStrip(_)
RStrip(s) ==
    IF s = <<>> THEN s
    ELSE IF s[Len(s)] \in Whitespace THEN RStrip(SubSeq(s, 1, Len(s) - 1)) ELSE s

\* str.strip()
Strip(s) == RStrip(LStrip(s))

\* len(x.strip())
StripLen(s) == Len(Strip(s))

\* index of the first '\n' of s, 0 when there is none
FirstNewline(s) ==
    IF \E i \in 1..Len(s) : s[i] = "\n"
    THEN CHOOSE i \in 1..Len(s) : s[i] = "\n" /\ \A j \in 1..(i - 1) : s[j] # "\n"
    ELSE 0

\* str.split('\n'): "" splits into one empty line
RECURSIVE SplitLines(_)
SplitLines(s) ==
    LET i == FirstNewline(s)
    IN IF i = 0 THEN <<s>>
       ELSE <<SubSeq(s, 1, i - 1)>> \o SplitLines(SubSeq(s, i + 1, Len(s)))

\* sep.join(parts)
RECURSIVE Join(_, _)
Join(parts, sep) ==
    IF parts = <<>> THEN <<>>
    ELSE IF Len(parts) = 1 THEN parts[1]
    ELSE parts[1] \o sep \o Join(Tail(parts), sep)

\* the least element of a non-empty set of integers
Min(S) == CHOOSE i \in S : \A j \in S : i <= j

\* re.sub(r'\n{3,}', '\n\n', text): the leftmost run of three or more '\n' is
\* cut down to two, then the rest of the text is treated the same way
RECURSIVE CollapseNewlines(_)
CollapseNewlines(s) ==
    LET starts == {i \in 1..(Len(s) - 2) :
                      s[i] = "\n" /\ s[i + 1] = "\n" /\ s[i + 2] = "\n"}
    IN IF starts = {} THEN s
       ELSE LET i == Min(starts)
                after == {j \in (i + 3)..Len(s) : s[j] # "\n"}
                j == IF after = {} THEN Len(s) + 1 ELSE Min(after)
            IN SubSeq(s, 1, i + 1) \o CollapseNewlines(SubSeq(s, j, Len(s)))

\* re.match(r'^[\d\W]+$', line.strip())
OnlyDigitsNonWord(t) ==
    /\ Len(t) >= 1
    /\ \A i \in 1..Len(t) : IsDigit(t[i]) \/ ~IsWord(t[i])

\* a filter that looks at the length of a line only
KeepLineLengthOnly(line) == StripLen(line) > 1

\* the condition of the list comprehension that filters the lines
KeepLine(line) ==
    /\ StripLen(line) > 1
    /\ ~OnlyDigitsNonWord(Strip(line))

\* '\n'.join([line for line in text.split('\n') if ...])
FilterLines(s) ==
    Join(SelectSeq(SplitLines(s), KeepLine), <<"\n">>)

\* The regex wildcard '.' of a pattern (any character but '\n')
AnyChar == "ANY"

common_ui_patterns == <<
    <<"C", "o", "o", "k", "i", "e", " ", "P", "o", "l", "i", "c", "y">>,
    <<"A", "c", "c", "e", "p", "t", " ", "C", "o", "o", "k", "i", "e", "s">>,
    <<"P", "r", "i", "v", "a", "c", "y", " ", "P", "o", "l", "i", "c", "y">>,
    <<"T", "e", "r", "m", "s", " ", "o", "f", " ", "S", "e", "r", "v", "i", "c", "e">>,
    <<"S", "i", "g", "n", " ", "u", "p">>,
    <<"L", "o", "g", " ", "i", "n">>,
    <<"S", "u", "b", "s", "c", "r", "i", "b", "e">>,
    <<"N", "e", "w", "s", "l", "e", "t", "t", "e", "r">>,
    <<"S", "h", "a", "r", "e">>,
    <<"F", "o", "l", "l", "o", "w", " ", "u", "s">>,
    <<"C", "o", "m", "m", "e", "n", "t", "s">>,
    <<"R", "e", "l", "a", "t", "e", "d", " ", "A", "r", "t", "i", "c", "l", "e", "s">>,
    <<"R", "e", "a", "d", " ", "m", "o", "r", "e">>,
    <<"L", "o", "a", "d", "i", "n", "g", AnyChar, AnyChar, AnyChar>>,
    <<"S", "e", "a", "r", "c", "h">>,
    <<"M", "e", "n", "u">>,
    <<"N", "a", "v", "i", "g", "a", "t", "i", "o", "n">> >>

\* whether (?i)pattern matches s at position i
MatchesAt(s, i, pattern) ==
    /\ i + Len(pattern) - 1 <= Len(s)
    /\ \A k \in 1..Len(pattern) :
          IF pattern[k] = AnyChar THEN s[i + k - 1] # "\n"
          ELSE Lower(s[i + k - 1]) = Lower(pattern[k])

\* a substitution that leaves the text as it is
RemovePatternNone(s, pattern) == s

\* re.sub(r'(?i)' + pattern + r'[\s\n]?', '', s): the leftmost match and at most
\* one whitespace character after it are dropped, then the scan resumes behind them
RECURSIVE RemovePattern(_, _)
RemovePattern(s, pattern) ==
    LET starts == {i \in 1..Len(s) : MatchesAt(s, i, pattern)}
    IN IF starts = {} THEN s
       ELSE LET i == Min(starts)
                j == i + Len(pattern)
                k == IF j <= Len(s) /\ s[j] \in Whitespace THEN j + 1 ELSE j
            IN SubSeq(s, 1, i - 1) \o RemovePattern(SubSeq(s, k, Len(s)), pattern)

\* for pattern in common_ui_patterns: text = re.sub(...)
RECURSIVE StripPatterns(_, _)
StripPatterns(s, k) ==
    IF k > Len(common_ui_patterns) THEN s
    ELSE StripPatterns(RemovePattern(s, common_ui_patterns[k]), k + 1)

\* the cleaning of a non-empty text
CleanText(s) == StripPatterns(FilterLines(CollapseNewlines(s)), 1)

-----------------------------------------------------------------------------
(* Inputs: what the libraries can hand back to url_to_text *)

\* text = "Could not extract readable content from this URL."
Sentinel == <<"C", "o", "u", "l", "d", " ", "n", "o", "t", " ", "e", "x", "t", "r", "a",
              "c", "t", " ", "r", "e", "a", "d", "a", "b", "l", "e", " ", "c", "o", "n",
              "t", "e", "n", "t", " ", "f", "r", "o", "m", " ", "t", "h", "i", "s", " ",
              "U", "R", "L", ".">>

\* title = "Extracted Content"
DefaultTitle == "Extracted Content"

\* "Real line\n123\n!!\nAnother real line"
ExampleBody == <<"R", "e", "a", "l", " ", "l", "i", "n", "e", "\n", "1", "2", "3", "\n",
                 "!", "!", "\n", "A", "n", "o", "t", "h", "e", "r", " ", "r", "e", "a",
                 "l", " ", "l", "i", "n", "e">>

NoiseTail == <<"\n", "1", "2", "3", "\n", "!", "!">>
\* a line "SHARE 12": a UI phrase in capitals followed by a number
SharePrefix == <<"S", "H", "A", "R", "E", " ", "1", "2", "\n">>

\* Bodies a provider may report: nothing, a short text, texts whose trimmed
\* length lies around the gate, a text padded with whitespace, a text of digits
\* only, a text with noise lines and a text with a UI phrase.
Bodies ==
    {<<>>, ExampleBody}
    \cup {Rep("a", n) : n \in (MinLength - Pad)..(MinLength + Pad)}
    \cup {<<" ">> \o Rep("a", MinLength) \o <<"\n">>}
    \cup {Rep("7", MinLength + 1)}
    \cup {Rep("a", MinLength - Len(NoiseTail) + 2) \o NoiseTail}
    \cup {SharePrefix \o Rep("a", MinLength + 1)}

\* soup.get_text(separator='\n\n', strip=True) is free of outer whitespace
StrippedBodies == {b \in Bodies : Strip(b) = b}

\* Titles a provider may report; "" stands for None or an empty title
Titles == {"", "Title A", "Title B"}

\* inner texts of the <p> elements of the rendered page
ParagraphTexts ==
    {Rep("b", MinParagraph),
     <<" ">> \o Rep("b", MinParagraph + 1),
     Rep("b", (MinLength - 2) \div 2),
     Rep("b", (MinLength - 2) \div 2 + 1)}

ParagraphLists ==
    UNION {[1..n -> ParagraphTexts] : n \in 0..MaxParagraphs}

Providers == {"trafilatura", "newspaper", "readability", "playwright"}

\* the order in which url_to_text tries the providers
ProviderOrder == <<"trafilatura", "newspaper", "readability", "playwright">>

\* the inner text of the element a content selector matches, with trimmed
\* lengths around the gate
SelectorTexts == {Rep("a", n) : n \in (MinLength - Pad)..(MinLength + Pad)}

\* the inner text of <body> of the rendered page, read by the last fallback;
\* <<>> stands for a page on which query_selector("body") finds nothing
PageBodies == {<<>>, Rep("a", MinLength), Rep("a", MinLength + 1)}

\* no candidate of the page was read: no selector match of 100 or more trimmed
\* characters, no <p> elements, no <body>
NoneConsulted == [selector |-> FALSE, paragraphs |-> FALSE, body |-> FALSE]

NoReport == [provider |-> "none", raised |-> FALSE, body |-> <<>>, title |-> "",
             held |-> DefaultTitle]

-----------------------------------------------------------------------------
(* url_to_text *)

\* the guard with its comparison turned round
NeedsMoreFlipped(t) == t = <<>> \/ StripLen(t) > MinLength

\* `not text or len(text.strip()) < 100`
NeedsMore(t) == t = <<>> \/ StripLen(t) < MinLength

\* `result and len(result.strip()) > 100`
Sufficient(t) == t # <<>> /\ StripLen(t) > MinLength

\* `if x: title = x`
KeepTitle(held, found) == IF found # "" THEN found ELSE held

\* the title of readability taken whatever title is held
ReadabilityTitleAlways(held, found) == found

\* `if not title or title == "Extracted Content": title = doc.title()`
ReadabilityTitle(held, found) ==
    IF held = "" \/ held = DefaultTitle THEN found ELSE held

\* the outcome of provider p: whether it raised, the body and the title it
\* reported, and the title held when it started
Report(p, raised, body, t) ==
    [provider |-> p, raised |-> raised, body |-> body, title |-> t, held |-> title]

\* `except Exception as e: raise HTTPException(status_code=500, ...)`
OuterExcept ==
    /\ status' = "error"
    /\ detail' = "Error processing URL"
    /\ pc' = "done"

\* the `except Exception: pass` of newspaper and readability
InnerExcept(next) ==
    /\ pc' = next
    /\ UNCHANGED <<status, detail>>

\* trafilatura.fetch_url / extract / extract_metadata, outside any inner try
Trafilatura ==
    /\ pc = "trafilatura"
    /\ invoked' = Append(invoked, "trafilatura")
    /\ UNCHANGED <<content_text, selector, browser, playwright, pvars, cvars>>
    /\ \/ \* fetch_url or extract raises
          /\ OuterExcept
          /\ last' = Report("trafilatura", TRUE, <<>>, "")
          /\ UNCHANGED <<title, text, accepted>>
       \/ \* fetch_url returns nothing
          /\ pc' = "newspaper"
          /\ last' = Report("trafilatura", FALSE, <<>>, "")
          /\ UNCHANGED <<title, text, accepted, status, detail>>
       \/ \E result \in Bodies :
             IF Sufficient(result)
             THEN \/ \* extract_metadata raises
                     /\ OuterExcept
                     /\ last' = Report("trafilatura", TRUE, result, "")
                     /\ UNCHANGED <<title, text, accepted>>
                  \/ \E t \in Titles :
                        /\ title' = KeepTitle(title, t)
                        /\ text' = result
                        /\ last' = Report("trafilatura", FALSE, result, t)
                        /\ accepted' = accepted \cup {"trafilatura"}
                        /\ pc' = "newspaper"
                        /\ UNCHANGED <<status, detail>>
             ELSE /\ pc' = "newspaper"
                  /\ last' = Report("trafilatura", FALSE, result, "")
                  /\ UNCHANGED <<title, text, accepted, status, detail>>

\* Article(url).download() / parse() under `except Exception: pass`
Newspaper ==
    /\ pc = "newspaper"
    /\ UNCHANGED <<content_text, selector, browser, playwright, pvars, cvars>>
    /\ IF NeedsMore(text)
       THEN /\ invoked' = Append(invoked, "newspaper")
            /\ \/ \* download or parse raises
                  /\ InnerExcept("readability")
                  /\ last' = Report("newspaper", TRUE, <<>>, "")
                  /\ UNCHANGED <<title, text, accepted>>
               \/ \E t \in Titles, body \in Bodies :
                     /\ title' = KeepTitle(title, t)
                     /\ text' = IF Sufficient(body) THEN body ELSE text
                     /\ accepted' = IF Sufficient(body)
                                    THEN accepted \cup {"newspaper"} ELSE accepted
                     /\ last' = Report("newspaper", FALSE, body, t)
                     /\ pc' = "readability"
                     /\ UNCHANGED <<status, detail>>
       ELSE /\ pc' = "readability"
            /\ UNCHANGED <<title, text, status, detail, invoked, last, accepted>>

\* requests.get / Document / BeautifulSoup under `except Exception: pass`
Readability ==
    /\ pc = "readability"
    /\ UNCHANGED <<content_text, selector, browser, playwright, pvars, cvars>>
    /\ IF NeedsMore(text)
       THEN /\ invoked' = Append(invoked, "readability")
            /\ \/ \* requests.get(url, headers=headers) is given no timeout: on a
                  \* server that never answers the call does not come back
                  /\ pc' = "blocked"
                  /\ UNCHANGED <<title, text, accepted, last, status, detail>>
               \/ \* requests.get, raise_for_status, Document or doc.title raises
                  /\ InnerExcept("playwright")
                  /\ last' = Report("readability", TRUE, <<>>, "")
                  /\ UNCHANGED <<title, text, accepted>>
               \/ \E t \in Titles :
                     /\ title' = ReadabilityTitle(title, t)
                     /\ \/ \* doc.summary or BeautifulSoup raises
                           /\ InnerExcept("playwright")
                           /\ last' = Report("readability", TRUE, <<>>, t)
                           /\ UNCHANGED <<text, accepted>>
                        \/ \* readable_html is empty
                           /\ pc' = "playwright"
                           /\ last' = Report("readability", FALSE, <<>>, t)
                           /\ UNCHANGED <<text, accepted, status, detail>>
                        \/ \E body \in StrippedBodies :
                              /\ text' = body
                              /\ accepted' = IF Sufficient(body)
                                             THEN accepted \cup {"readability"}
                                             ELSE accepted
                              /\ last' = Report("readability", FALSE, body, t)
                              /\ pc' = "playwright"
                              /\ UNCHANGED <<status, detail>>
       ELSE /\ pc' = "playwright"
            /\ UNCHANGED <<title, text, status, detail, invoked, last, accepted>>

\* the browser provider without its own handler: the error reaches the outer one
PlaywrightExceptReraise == OuterExcept

\* `except Exception as e: print(...); pass` of the browser provider
PlaywrightExcept ==
    /\ pc' = "clean"
    /\ UNCHANGED <<status, detail>>

\* a call of the browser provider raises after the browser was launched: the
\* `async with` block is left, `await browser.close()` is not reached
PlaywrightFailed ==
    /\ PlaywrightExcept
    /\ playwright' = "exited"
    /\ last' = [last EXCEPT !.raised = TRUE]
    /\ UNCHANGED <<title, text, content_text, selector, browser, accepted, pvars>>

\* `async with async_playwright() as p: browser = await p.chromium.launch(...)`
PlaywrightLaunch ==
    /\ pc = "playwright"
    /\ UNCHANGED <<pvars, cvars>>
    /\ IF NeedsMore(text)
       THEN /\ invoked' = Append(invoked, "playwright")
            /\ \/ \* async_playwright() fails to start, or chromium.launch raises
                  /\ PlaywrightExcept
                  /\ playwright' \in {"none", "exited"}
                  /\ last' = Report("playwright", TRUE, <<>>, "")
                  /\ UNCHANGED <<title, text, content_text, selector, browser,
                                 accepted>>
               \/ /\ playwright' = "active"
                  /\ browser' = "open"
                  /\ pc' = "page"
                  /\ last' = Report("playwright", FALSE, <<>>, "")
                  /\ UNCHANGED <<title, text, content_text, selector, status, detail,
                                 accepted>>
       ELSE /\ pc' = "clean"
            /\ UNCHANGED <<title, text, content_text, selector, browser, playwright,
                           status, detail, invoked, last, accepted>>

\* new_page, set_viewport_size, goto(timeout=60000), wait_for_load_state,
\* wait_for_timeout(5000)
PlaywrightGoto ==
    /\ pc = "page"
    /\ UNCHANGED <<invoked, pvars, cvars>>
    /\ \/ PlaywrightFailed
       \/ /\ pc' = "page_title"
          /\ UNCHANGED <<title, text, content_text, selector, browser, playwright,
                         status, detail, last, accepted>>

\* page_title = await page.title(); content_text = ""
PlaywrightTitle ==
    /\ pc = "page_title"
    /\ UNCHANGED <<invoked, pvars, cvars>>
    /\ \/ PlaywrightFailed
       \/ \E t \in Titles :
             /\ title' = KeepTitle(title, t)
             /\ content_text' = <<>>
             /\ selector' = 1
             /\ last' = [last EXCEPT !.title = t]
             /\ pc' = "selectors"
             /\ UNCHANGED <<text, browser, playwright, status, detail, accepted>>

\* one iteration of `for selector in content_selectors`
PlaywrightSelector ==
    /\ pc = "selectors"
    /\ UNCHANGED <<title, text, browser, playwright, status, detail, invoked, last,
                   accepted, page_body, cvars>>
    /\ LET continue == /\ selector' = selector + 1
                       /\ pc' = IF selector = NumSelectors THEN "paragraphs"
                                ELSE "selectors"
       IN \/ \* query_selector or inner_text raises (`continue`), or no match
             /\ continue
             /\ UNCHANGED <<content_text, consulted>>
          \/ \E body \in SelectorTexts :
                /\ content_text' = body
                /\ consulted' = [consulted EXCEPT
                                    !.selector = @ \/ StripLen(body) >= MinLength]
                /\ IF Sufficient(body)
                   THEN \* `break`: the loop is over, no selector is left to try
                        /\ pc' = "paragraphs"
                        /\ selector' = NumSelectors + 1
                   ELSE continue

\* the <p> texts longer than 20 trimmed characters, joined by a blank line
JoinParagraphs(ps) ==
    LET kept == SelectSeq(ps, LAMBDA t : t # <<>> /\ StripLen(t) > MinParagraph)
    IN Join([i \in 1..Len(kept) |-> Strip(kept[i])], <<"\n", "\n">>)

\* the fallback to the <p> elements
PlaywrightParagraphs ==
    /\ pc = "paragraphs"
    /\ UNCHANGED <<invoked, page_body, cvars>>
    /\ IF NeedsMore(content_text)
       THEN \/ \* query_selector_all or an inner_text raises
               PlaywrightFailed
            \/ \E ps \in ParagraphLists :
                  /\ content_text' = JoinParagraphs(ps)
                  /\ consulted' = [consulted EXCEPT !.paragraphs = TRUE]
                  /\ pc' = "body"
                  /\ UNCHANGED <<title, text, selector, browser, playwright, status,
                                 detail, last, accepted>>
       ELSE /\ pc' = "body"
            /\ UNCHANGED <<title, text, content_text, selector, browser, playwright,
                           status, detail, last, accepted, consulted>>

\* the fallback to the text of <body>
PlaywrightBody ==
    /\ pc = "body"
    /\ UNCHANGED <<invoked, cvars>>
    /\ IF NeedsMore(content_text)
       THEN \/ \* query_selector or inner_text raises
               PlaywrightFailed
            \/ \* `if body:` fails when there is no <body>
               /\ page_body' \in PageBodies
               /\ content_text' = IF page_body' = <<>> THEN content_text
                                  ELSE page_body'
               /\ consulted' = [consulted EXCEPT !.body = TRUE]
               /\ pc' = "close"
               /\ UNCHANGED <<title, text, selector, browser, playwright, status,
                              detail, last, accepted>>
       ELSE \* the page has its <body> all the same, it is not read
            /\ page_body' \in PageBodies
            /\ pc' = "close"
            /\ UNCHANGED <<title, text, content_text, selector, browser, playwright,
                           status, detail, last, accepted, consulted>>

\* await browser.close()
PlaywrightClose ==
    /\ pc = "close"
    /\ UNCHANGED <<invoked, pvars, cvars>>
    /\ \/ PlaywrightFailed
       \/ /\ browser' = "closed"
          /\ pc' = "gate"
          /\ UNCHANGED <<title, text, content_text, selector, playwright, status,
                         detail, last, accepted>>

\* `if content_text and len(content_text.strip()) > 100: text = content_text`
PlaywrightGate ==
    /\ pc = "gate"
    /\ text' = IF Sufficient(content_text) THEN content_text ELSE text
    /\ last' = [last EXCEPT !.body = content_text]
    /\ accepted' = IF Sufficient(content_text)
                   THEN accepted \cup {"playwright"} ELSE accepted
    /\ playwright' = "exited"
    /\ pc' = "clean"
    /\ UNCHANGED <<title, content_text, selector, browser, status, detail, invoked,
                   pvars, cvars>>

\* the text of the response: the cleaned text, or the sentinel when `text` is empty
ResponseText(t) == IF t # <<>> THEN CleanText(t) ELSE Sentinel

\* `if text:` with the collapse of newlines and the filter of the lines, or the
\* `else:` branch, which returns the sentinel
FilterText ==
    /\ pc = "clean"
    /\ IF text # <<>>
       THEN /\ text' = FilterLines(CollapseNewlines(text))
            /\ pc' = "strip"
            /\ UNCHANGED status
       ELSE /\ text' = Sentinel
            /\ status' = "ok"
            /\ pc' = "done"
    /\ UNCHANGED <<title, content_text, selector, browser, playwright, detail,
                   invoked, last, accepted, pvars, cvars>>

\* `for pattern in common_ui_patterns: ...` and `return UrlToTextResponse(...)`
StripAndReturn ==
    /\ pc = "strip"
    /\ text' = StripPatterns(text, 1)
    /\ status' = "ok"
    /\ pc' = "done"
    /\ UNCHANGED <<title, content_text, selector, browser, playwright, detail,
                   invoked, last, accepted, pvars, cvars>>

-----------------------------------------------------------------------------
(* condense_text *)

\* all texts over the characters cs of at most n characters
TextsUpTo(cs, n) == UNION {[1..k -> cs] : k \in 0..n}

\* request.text
RequestTexts == TextsUpTo({"a", " ", "."}, MaxText)

\* request.percentage: Field(50, ge=10, le=90)
Percentages == {10, 50, 90}

\* message.content of the model's reply
Replies == TextsUpTo({"a", " "}, MaxReply)

NoRequest == [text |-> <<>>, percentage |-> 50, preserve_headings |-> TRUE]
NoResponse == [original_length |-> 0, condensed_length |-> 0,
               percentage_achieved |-> [num |-> 0, den |-> 1],
               condensed_text |-> <<>>]

\* `except Exception as e: raise HTTPException(status_code=500, ...)`
CondenseExcept ==
    /\ cstatus' = "error"
    /\ cdetail' = "Error condensing text"
    /\ cpc' = "done"

\* a request arrives; the environment has the API key or not
CondenseRequest ==
    /\ cpc = "idle"
    /\ \E t \in RequestTexts, p \in Percentages, h \in BOOLEAN :
          creq' = [text |-> t, percentage |-> p, preserve_headings |-> h]
    /\ api_key' \in BOOLEAN
    /\ cpc' = "key"
    /\ UNCHANGED <<reply, cres, cstatus, cdetail, uvars>>

\* `if not api_key: raise HTTPException(...)`, caught by the handler's own except
CondenseKey ==
    /\ cpc = "key"
    /\ IF api_key
       THEN /\ cpc' = "call"
            /\ UNCHANGED <<cstatus, cdetail>>
       ELSE CondenseExcept
    /\ UNCHANGED <<creq, api_key, reply, cres, uvars>>

\* client.chat.completions.create(...)
CondenseCall ==
    /\ cpc = "call"
    /\ \/ \* the call raises, or message.content is None and .strip() raises
          /\ CondenseExcept
          /\ UNCHANGED reply
       \/ /\ reply' \in Replies
          /\ cpc' = "respond"
          /\ UNCHANGED <<cstatus, cdetail>>
    /\ UNCHANGED <<creq, api_key, cres, uvars>>

\* the length of the trimmed request text
OriginalLengthStripped(t) == StripLen(t)

\* original_length = len(original_text)
OriginalLength(t) == Len(t)

\* the reply taken as it is, without .strip()
CondensedTextRaw(content) == content

\* condensed_text = response.choices[0].message.content.strip()
CondensedText(content) == Strip(content)

\* the percentage without the guard on original_length
PercentageAchievedUnguarded(condensed_length, original_length) ==
    [num |-> condensed_length * 100, den |-> original_length]

\* (condensed_length / original_length) * 100 if original_length > 0 else 0,
\* kept as a fraction
PercentageAchieved(condensed_length, original_length) ==
    IF original_length > 0
    THEN [num |-> condensed_length * 100, den |-> original_length]
    ELSE [num |-> 0, den |-> 1]

\* the metrics and `return TextCondensationResponse(...)`
CondenseRespond ==
    /\ cpc = "respond"
    /\ LET condensed_text == CondensedText(reply)
           original_length == OriginalLength(creq.text)
           condensed_length == Len(condensed_text)
       IN cres' = [original_length |-> original_length,
                   condensed_length |-> condensed_length,
                   percentage_achieved |->
                       PercentageAchieved(condensed_length, original_length),
                   condensed_text |-> condensed_text]
    /\ cstatus' = "ok"
    /\ cpc' = "done"
    /\ UNCHANGED <<creq, api_key, reply, cdetail, uvars>>

-----------------------------------------------------------------------------
(* Specifications *)

Init ==
    /\ pc = "trafilatura"
    /\ title = DefaultTitle
    /\ text = <<>>
    /\ content_text = <<>>
    /\ selector = 1
    /\ browser = "none"
    /\ playwright = "none"
    /\ status = "running"
    /\ detail = ""
    /\ invoked = <<>>
    /\ last = NoReport
    /\ accepted = {}
    /\ page_body = <<>>
    /\ consulted = NoneConsulted
    /\ cpc = "idle"
    /\ creq = NoRequest
    /\ api_key = FALSE
    /\ reply = <<>>
    /\ cres = NoResponse
    /\ cstatus = "running"
    /\ cdetail = ""

\* one url_to_text request
Next ==
    \/ Trafilatura
    \/ Newspaper
    \/ Readability
    \/ PlaywrightLaunch
    \/ PlaywrightGoto
    \/ PlaywrightTitle
    \/ PlaywrightSelector
    \/ PlaywrightParagraphs
    \/ PlaywrightBody
    \/ PlaywrightClose
    \/ PlaywrightGate
    \/ FilterText
    \/ StripAndReturn

Spec == Init /\ [][Next]_vars

\* one condense_text request
CondenseNext ==
    \/ CondenseRequest
    \/ CondenseKey
    \/ CondenseCall
    \/ CondenseRespond

SpecCondense == Init /\ [][CondenseNext]_vars

-----------------------------------------------------------------------------
(* Properties of url_to_text *)

\* url_to_text has returned a UrlToTextResponse
Returned == pc = "done" /\ status = "ok"

\* the provider tried after p
Successor(p) ==
    CASE p = "trafilatura" -> "newspaper"
      [] p = "newspaper" -> "readability"
      [] p = "readability" -> "playwright"
      [] OTHER -> "none"

WasInvoked(p) == \E i \in 1..Len(invoked) : invoked[i] = p

\* the handler is past the guard of the provider tried after p
PastGuardAfter(p) ==
    CASE p = "trafilatura" -> pc \notin {"trafilatura", "newspaper"}
      [] p = "newspaper" -> pc \notin {"trafilatura", "newspaper", "readability"}
      [] p = "readability" -> pc \notin {"trafilatura", "newspaper", "readability",
                                         "playwright"}
      [] OTHER -> FALSE

\* the headless browser was asked for and never launched
LaunchFailed ==
    /\ WasInvoked("playwright")
    /\ last.raised
    /\ browser = "none"

\* C1: url_to_text never fails outright: whatever the providers do (return
\* nothing, return an insufficient body, raise), the request ends with a result,
\* and when no provider yields a sufficient body the returned text is the sentinel.
C1_NeverFailsOutright ==
    pc = "done" =>
        /\ status = "ok"
        /\ accepted = {} => text = Sentinel

\* C2: the text of every returned result is the sentinel message or is longer
\* than 100 characters.
C2_BodySentinelOrLong ==
    Returned => (text = Sentinel \/ Len(text) > MinLength)

\* C3: the gate is strictly "trimmed length > 100" for every provider: a body of
\* exactly 100 trimmed characters is not accepted and the chain moves on to the
\* next provider, a body of 101 trimmed characters is accepted.
C3_StrictGateEveryProvider ==
    (last.provider \in Providers /\ ~last.raised) =>
        /\ StripLen(last.body) = MinLength =>
              /\ last.provider \notin accepted
              /\ PastGuardAfter(last.provider) => WasInvoked(Successor(last.provider))
        /\ StripLen(last.body) = MinLength + 1 => last.provider \in accepted

\* C4: a provider that raises is treated as "no result": the request is not
\* aborted and the next provider of the chain is still tried.
C4_ProviderFailuresIsolated ==
    (last.provider \in Providers /\ last.raised) =>
        /\ status # "error"
        /\ PastGuardAfter(last.provider) => WasInvoked(Successor(last.provider))

\* C5: the providers run one after another in the order trafilatura, newspaper,
\* readability, playwright; a provider is invoked only if no earlier provider
\* had its body accepted, so nothing is invoked after an accepted body.
C5_SequentialFirstSuccess ==
    /\ Len(invoked) <= Len(ProviderOrder)
    /\ invoked = SubSeq(ProviderOrder, 1, Len(invoked))
    /\ \A i \in 1..Len(invoked) :
          \A j \in 1..(i - 1) : ProviderOrder[j] \notin accepted
    /\ \A p \in accepted : WasInvoked(p)

C5_Witness ==
    /\ Returned
    /\ accepted = {"newspaper"}
    /\ invoked = <<"trafilatura", "newspaper">>

\* C6 as stated: when a provider's body is accepted and the provider supplied a
\* non-empty title, the returned title is that provider's title.
C6_AcceptingProviderTitle ==
    (Returned /\ last.provider \in accepted /\ last.title # "") =>
        title = last.title

\* C6 as amended: the returned title is the accepting provider's non-empty title
\* for trafilatura, newspaper and playwright; for readability it is so only if
\* the title held when readability ran was still "Extracted Content" (or empty),
\* and otherwise the title already held is returned.
C6_AcceptingProviderTitleUnlessHeld ==
    (Returned /\ last.provider \in accepted /\ last.title # "") =>
        title = IF last.provider = "readability"
                   /\ last.held \notin {"", DefaultTitle}
                THEN last.held
                ELSE last.title

C6_Witness ==
    /\ Returned
    /\ last.provider = "readability"
    /\ "readability" \in accepted
    /\ last.title # ""
    /\ last.held \notin {"", DefaultTitle}
    /\ title = last.held
    /\ title # last.title

\* C7: the title is never empty, and a provider that reports an empty title
\* leaves the title held so far as it is.
C7_TitleNeverEmpty ==
    /\ title # ""
    /\ (last.provider \in Providers /\ last.title = "") => title = last.held

\* C8 as stated: the headless browser failing to launch is surfaced to the
\* caller as a request failure carrying a message, not as a normal result.
C8_LaunchFailureSurfaced ==
    (pc = "done" /\ LaunchFailed) => (status = "error" /\ detail # "")

\* C8 as amended: a request fails exactly when a trafilatura call raises, the
\* failure carries a message, and the browser failing to launch ends in a normal
\* result.
C8_OnlyTrafilaturaErrorsSurface ==
    pc = "done" =>
        /\ status \in {"ok", "error"}
        /\ status = "error" <=> (last.provider = "trafilatura" /\ last.raised)
        /\ status = "error" => detail = "Error processing URL"
        /\ status = "ok" => detail = ""
        /\ LaunchFailed => status = "ok"

C8_Witness ==
    /\ pc = "done"
    /\ LaunchFailed
    /\ status = "ok"
    /\ text = Sentinel

-----------------------------------------------------------------------------
(* Properties of condense_text *)

ZeroPercent == [num |-> 0, den |-> 1]

\* C9 as stated: condense_text on an empty text does not fail and returns
\* condensed_length 0, percentage_achieved 0 and an empty condensed_text.
C9_EmptyInputZeroResult ==
    (cpc = "done" /\ creq.text = <<>>) =>
        /\ cstatus = "ok"
        /\ cres.condensed_length = 0
        /\ cres.percentage_achieved = ZeroPercent
        /\ cres.condensed_text = <<>>

\* C9 as amended: on an empty text a successful condense_text has
\* original_length 0 and percentage_achieved exactly 0, without a division by
\* zero; condensed_text is the trimmed reply of the model and condensed_length
\* its length; a failed request carries the handler's message.
C9_EmptyInputNoDivision ==
    (cpc = "done" /\ creq.text = <<>>) =>
        /\ cstatus \in {"ok", "error"}
        /\ cstatus = "ok" =>
              /\ cres.original_length = 0
              /\ cres.percentage_achieved = ZeroPercent
              /\ cres.condensed_text = Strip(reply)
              /\ cres.condensed_length = Len(Strip(reply))
        /\ cstatus = "error" =>
              /\ cdetail = "Error condensing text"
              /\ cres = NoResponse
        /\ ~api_key => cstatus = "error"

C9_Witness ==
    /\ cpc = "done"
    /\ creq.text = <<>>
    /\ cstatus = "ok"
    /\ cres.condensed_length > 0
    /\ cres.percentage_achieved = ZeroPercent

\* C10: in a successful condense_text result original_length is the length of
\* the request text, condensed_length the length of the returned condensed_text,
\* and percentage_achieved is condensed_length / original_length x 100, or 0
\* when original_length is 0.
C10_MetricsConsistent ==
    (cpc = "done" /\ cstatus = "ok") =>
        /\ cres.original_length = Len(creq.text)
        /\ cres.condensed_length = Len(cres.condensed_text)
        /\ cres.percentage_achieved.den > 0
        /\ IF cres.original_length > 0
           THEN cres.percentage_achieved.num * cres.original_length
                    = cres.condensed_length * 100 * cres.percentage_achieved.den
           ELSE cres.percentage_achieved.num = 0

C10_Witness ==
    /\ cpc = "done"
    /\ cstatus = "ok"
    /\ Len(creq.text) > StripLen(creq.text)
    /\ cres.original_length > 0
    /\ cres.condensed_length > 0
    /\ Len(reply) > cres.condensed_length

\* the places of t where a sentence ends: '.', '!' or '?' followed by whitespace
SentenceBreaks(t) ==
    {i \in 1..(Len(t) - 1) : t[i] \in {".", "!", "?"} /\ t[i + 1] \in Whitespace}

\* t is one paragraph (no blank line) of at most two sentences
ShortParagraph(t) ==
    /\ Strip(t) # <<>>
    /\ \A i \in 1..(Len(t) - 1) : ~(t[i] = "\n" /\ t[i + 1] = "\n")
    /\ Cardinality(SentenceBreaks(t)) <= 1

\* C11 as stated: a text made of one paragraph of at most 2 sentences comes back
\* unchanged, for every percentage in 10..90.
C11_ShortParagraphUnchanged ==
    (cpc = "done" /\ cstatus = "ok" /\ ShortParagraph(creq.text)) =>
        cres.condensed_text = creq.text

\* C11 as amended: for every percentage and every request text the returned
\* condensed_text is the trimmed reply of the model; no paragraph of the request
\* is copied into it.
C11_CondensedTextIsReply ==
    (cpc = "done" /\ cstatus = "ok") =>
        /\ creq.percentage \in Percentages
        /\ cres.condensed_text = Strip(reply)
        /\ Strip(reply) # creq.text => cres.condensed_text # creq.text

C11_Witness ==
    /\ cpc = "done"
    /\ cstatus = "ok"
    /\ ShortParagraph(creq.text)
    /\ SentenceBreaks(creq.text) # {}
    /\ creq.percentage = 90
    /\ cres.condensed_text # creq.text

ExampleCleaned == <<"R", "e", "a", "l", " ", "l", "i", "n", "e", "\n", "A", "n", "o",
                    "t", "h", "e", "r", " ", "r", "e", "a", "l", " ", "l", "i", "n",
                    "e">>

\* a line whose trimmed content has at most 1 character or holds nothing but
\* digits and non-word characters
NoiseLine(line) ==
    LET t == Strip(line)
    IN \/ Len(t) <= 1
       \/ \A i \in 1..Len(t) : t[i] \in Digit \/ t[i] \notin (Letter \cup Digit \cup {"_"})

HasNoiseLine(t) ==
    \E i \in 1..Len(SplitLines(t)) : NoiseLine(SplitLines(t)[i])

\* C13 as stated: a returned text that is not the sentinel has no line of at most
\* 1 trimmed character and no line made of digits/non-word characters only.
C13_NoNoiseLineReturned ==
    (Returned /\ text # Sentinel) => ~HasNoiseLine(text)

\* C13 as amended: the filter of the lines leaves a text that is empty or has no
\* noise line, and turns the example into "Real line\nAnother real line"; this
\* holds of the text before the UI phrases are stripped from it.
C13_NoNoiseLineAfterFilter ==
    [][(pc = "clean" /\ pc' = "strip") =>
          /\ text' = <<>> \/ ~HasNoiseLine(text')
          /\ text = ExampleBody => text' = ExampleCleaned]_vars

C13_Witness ==
    /\ pc = "strip"
    /\ text = ExampleCleaned
    /\ WasInvoked("readability")

\* the filtered text of an accepted body
FilteredBody == FilterLines(CollapseNewlines(last.body))

\* some UI phrase occurs in t, in any case of the letters
HasPhrase(t) ==
    \E k \in 1..Len(common_ui_patterns) :
        \E i \in 1..Len(t) : MatchesAt(t, i, common_ui_patterns[k])

\* C14 as stated: a body accepted from trafilatura, newspaper or readability is
\* returned with its UI phrases untouched; only a body of the browser provider
\* has them stripped.
C14_PhrasesKeptUnlessBrowser ==
    (Returned /\ last.provider \in {"trafilatura", "newspaper", "readability"}
              /\ last.provider \in accepted) =>
        text = FilteredBody

\* C14 as amended: the UI phrases are stripped from every non-empty text,
\* whichever provider it came from: a filtered text with a UI phrase in it is
\* returned shorter than it was.
C14_PhrasesStrippedForEveryProvider ==
    [][(pc = "strip" /\ pc' = "done" /\ HasPhrase(text)) =>
          /\ Len(text') < Len(text)
          /\ status' = "ok"]_vars

C14_Witness ==
    /\ Returned
    /\ last.provider = "trafilatura"
    /\ "trafilatura" \in accepted
    /\ HasPhrase(FilteredBody)
    /\ text = <<"1", "2", "\n">> \o Rep("a", MinLength + 1)

\* C18 as stated: the returned text is never the empty string.
C18_TextNeverEmpty ==
    Returned => text # <<>>

\* C15 as stated: the candidates of the rendered page are consulted in a fixed
\* order and the first success wins: the <p> elements are read only if no
\* selector yielded at least 100 characters, the <body> only after the <p>
\* elements, and a selector match of at least 100 characters is not replaced by
\* a later candidate.
C15_FixedOrderFirstSuccess ==
    /\ consulted.paragraphs => ~consulted.selector
    /\ consulted.body => consulted.paragraphs
    /\ (pc \in {"paragraphs", "body", "close", "gate"} /\ consulted.selector) =>
          StripLen(content_text) >= MinLength

\* C19 as stated: when the browser provider ran, no call raised and the <body>
\* of the page has more than 100 trimmed characters, the body of the browser
\* provider is accepted and the result is not the sentinel.
C19_LongPageBodyAccepted ==
    (/\ pc \in {"clean", "strip", "done"}
     /\ last.provider = "playwright"
     /\ ~last.raised
     /\ StripLen(page_body) > MinLength) =>
        /\ "playwright" \in accepted
        /\ Returned => text # Sentinel

\* C16 as stated: no call of the chain can block the request: as long as
\* url_to_text has not ended, it can take its next step.
C16_EveryRequestReturns ==
    pc = "done" \/ ENABLED Next

====
